---- MODULE Spec2Model ----
(***************************************************************************)
(* Audio routing engine of the toolbox "sound option" feature:             *)
(* base/media/audioContext (src/unnamed/part_001, lines 390-651), the      *)
(* toolbox middleware that forwards SET_SOUND_OPTION to it (lines 1-67).   *)
(*                                                                         *)
(* The Web Audio graph is a set of directed edges <<from, to>> between     *)
(* the caller's source nodes, the singleton StereoPannerNode ("pan") and   *)
(* context.destination ("destination").  AudioNode.connect adds one edge   *)
(* (connecting twice is one connection), AudioNode.disconnect() removes    *)
(* every outgoing edge of the node.  Pan values are in tenths: PanOne is   *)
(* the 1 of Math.max(-1, Math.min(1, v)).                                  *)
(***************************************************************************)
EXTENDS Integers, Sequences, FiniteSets, TLC

\* ------------------------------------------------------------------ bounds
NumSources == 2
MaxTests == 1
MaxTime == 1

\* --------------------------------------------------------------- constants
PanOne == 10

SourceNames == <<"s1", "s2", "s3", "s4">>
Sources == {SourceNames[i] : i \in 1..NumSources}
PanNode == "pan"
\* the oscillator and the gain node a test helper creates for its n-th tone
OscillatorNames == <<"osc1", "osc2", "osc3">>
GainNames == <<"gain1", "gain2", "gain3">>
Destination == "destination"

KnownModes == {"default", "stereopanner", "equalpower", "hrtf"}
\* "surround" stands for every string outside the four known modes
ModeStrings == KnownModes \cup {"surround"}

\* values a caller submits as pan (tenths); some lie outside [-1, 1]
PanInputs == {-15, 7}
Undefined == -1
\* the optional `when' argument: omitted, or a later time on the context clock
WhenInputs(now) == {Undefined} \cup ((now + 1)..MaxTime)

VARIABLES
    audioContext,       \* TRUE once the AudioContext has been created
    stereoPannerNode,   \* TRUE once the StereoPannerNode has been created
    pan,                \* stereoPannerNode.pan.value (0 while there is no node)
    panEvents,          \* automation events scheduled on pan: set of <<time, value>>
    currentTime,        \* context.currentTime
    currentAudioMode,
    connectedSources,   \* the Set<AudioNode>, in insertion order
    edges,              \* the audio graph
    contextsCreated,    \* how many AudioContext objects were constructed
    pannersCreated,     \* how many StereoPannerNode objects were constructed
    testsStarted,       \* how many test tones the test helpers have started
    timers,             \* the test tones whose cleanup timer has not fired yet
    sequence,           \* the pan values of the steps testStereoPannerSequence
                        \* has scheduled and that have not run yet
    superseded,         \* the state of the superseded copy of the module
    lastOp,             \* the call that produced this state, and its outcome
    steps               \* what the graph went through in that call, when it
                        \* was a mode change

vars == <<audioContext, stereoPannerNode, pan, panEvents, currentTime,
          currentAudioMode, connectedSources, edges, contextsCreated,
          pannersCreated, testsStarted, timers, sequence, superseded,
          lastOp, steps>>

\* ----------------------------------------------------------- the platform
Max(a, b) == IF a >= b THEN a ELSE b
Min(a, b) == IF a <= b THEN a ELSE b

\* Math.max(-1, Math.min(1, panValue))
Clamp(v) == Max(-PanOne, Min(PanOne, v))

Range(s) == {s[i] : i \in 1..Len(s)}

\* variant: a list push instead of a Set add
SetAddAppend(s, x) == Append(s, x)

\* Set.prototype.add: a value already in the set is not added again
SetAdd(s, x) == IF x \in Range(s) THEN s ELSE Append(s, x)

\* AudioNode.connect(destination)
NodeConnect(E, from, to) == E \cup {<<from, to>>}

\* AudioNode.disconnect(): all outgoing connections of the node
NodeDisconnect(E, from) == {e \in E : e[1] # from}

\* AudioParam.setValueAtTime(value, when): the change is scheduled, it does
\* not touch the current value; a later event for the same time replaces
\* the earlier one
SetValueAtTime(ev, value, when) ==
    {e \in ev : e[1] # when} \cup {<<when, value>>}

\* the environment of one call: does `new AudioContext()' succeed, does
\* context.createStereoPanner() succeed, and the source nodes whose
\* connect() throws during the call
\* and stuck the tracked sources whose disconnect() throws
NoFaults == [ctxOk |-> TRUE, panOk |-> TRUE, failing |-> {}, stuck |-> {}]
\* for a call that connects the sources S (a call whose context or panner
\* cannot be created is not given failing sources as well)
Faults(S) == [ctxOk : {TRUE}, panOk : {TRUE}, failing : SUBSET S,
              stuck : {{}}]
                 \cup {[ctxOk |-> FALSE, panOk |-> TRUE, failing |-> {},
                        stuck |-> {}],
                       [ctxOk |-> TRUE, panOk |-> FALSE, failing |-> {},
                        stuck |-> {}]}
\* for the calls that connect no source
ContextFaults == [ctxOk : BOOLEAN, panOk : {TRUE}, failing : {{}},
                  stuck : {{}}]
\* for a mode change over the tracked sources S: any of them may fail to
\* disconnect, and the context may fail to be created
StuckFaults(S) == [ctxOk : BOOLEAN, panOk : {TRUE}, failing : {{}},
                   stuck : SUBSET S]
CreationFaults == Faults({})

\* ------------------------------------------------------- the module state
State == [audioContext |-> audioContext,
          stereoPannerNode |-> stereoPannerNode,
          pan |-> pan,
          panEvents |-> panEvents,
          currentTime |-> currentTime,
          currentAudioMode |-> currentAudioMode,
          connectedSources |-> connectedSources,
          edges |-> edges,
          contextsCreated |-> contextsCreated,
          pannersCreated |-> pannersCreated,
          testsStarted |-> testsStarted,
          timers |-> timers,
          sequence |-> sequence,
          superseded |-> superseded]

Ok(st) == [st |-> st, threw |-> FALSE]
Throw(st) == [st |-> st, threw |-> TRUE]

\* variant: the context is stored although its creation threw
getAudioContextStoresFailed(st, env) ==
    IF st.audioContext
    THEN Ok(st)
    ELSE IF env.ctxOk
         THEN Ok([st EXCEPT !.audioContext = TRUE,
                            !.contextsCreated = @ + 1])
         ELSE Throw([st EXCEPT !.audioContext = TRUE])

\* variant: no `if (!audioContext)', every call constructs a context
getAudioContextNoGuard(st, env) ==
    IF env.ctxOk
    THEN Ok([st EXCEPT !.audioContext = TRUE, !.contextsCreated = @ + 1])
    ELSE Throw(st)

\* `new AudioContext()' runs only while audioContext is null; when it
\* throws, the error is logged and thrown again, audioContext stays null
getAudioContext(st, env) ==
    IF st.audioContext
    THEN Ok(st)
    ELSE IF env.ctxOk
         THEN Ok([st EXCEPT !.audioContext = TRUE,
                            !.contextsCreated = @ + 1])
         ELSE Throw(st)

\* variant: the pan is written on every call, not only on creation
getStereoPannerNodeReset(st, panValue, env) ==
    LET c == getAudioContext(st, env) IN
    IF c.threw THEN c
    ELSE IF c.st.stereoPannerNode \/ env.panOk
         THEN Ok([c.st EXCEPT !.stereoPannerNode = TRUE,
                              !.pannersCreated =
                                  IF c.st.stereoPannerNode THEN @ ELSE @ + 1,
                              !.pan = Clamp(panValue)])
         ELSE Throw(c.st)

\* a createStereoPanner() that throws leaves stereoPannerNode null
getStereoPannerNode(st, panValue, env) ==
    LET c == getAudioContext(st, env) IN
    IF c.threw THEN c
    ELSE IF c.st.stereoPannerNode
         THEN c
         ELSE IF env.panOk
              THEN Ok([c.st EXCEPT !.stereoPannerNode = TRUE,
                                   !.pannersCreated = @ + 1,
                                   !.pan = Clamp(panValue)])
              ELSE Throw(c.st)

\* variant: the value is written as submitted
setPanValueUnclamped(st, panValue, when, env) ==
    LET n == getStereoPannerNode(st, 0, env) IN
    IF n.threw THEN n
    ELSE IF when # Undefined
         THEN Ok([n.st EXCEPT !.panEvents = SetValueAtTime(@, panValue, when)])
         ELSE Ok([n.st EXCEPT
                      !.pan = panValue,
                      !.panEvents = {e \in @ : e[1] > n.st.currentTime}])

setPanValue(st, panValue, when, env) ==
    LET n == getStereoPannerNode(st, 0, env)
        clampedPanValue == Clamp(panValue)
    IN  IF n.threw THEN n
        ELSE IF when # Undefined
             THEN Ok([n.st EXCEPT !.panEvents =
                          SetValueAtTime(@, clampedPanValue, when)])
             ELSE Ok([n.st EXCEPT
                          !.pan = clampedPanValue,
                          !.panEvents = {e \in @ : e[1] > n.st.currentTime}])

\* variant: the source is routed by the rule of the current mode
connectAudioThroughStereoPannerByMode(st, sourceNode, panValue, env) ==
    LET n == getStereoPannerNode(st, panValue, env) IN
    IF n.threw THEN n
    ELSE IF sourceNode \in env.failing
         THEN Throw(n.st)
         ELSE Ok([n.st EXCEPT
                      !.edges = IF st.currentAudioMode = "stereopanner"
                                THEN NodeConnect(
                                         NodeConnect(@, sourceNode, PanNode),
                                         PanNode, Destination)
                                ELSE NodeConnect(@, sourceNode, Destination),
                      !.connectedSources = SetAdd(@, sourceNode)])

connectAudioThroughStereoPanner(st, sourceNode, panValue, env) ==
    LET n == getStereoPannerNode(st, panValue, env) IN
    IF n.threw THEN n
    ELSE IF sourceNode \in env.failing
         THEN Throw(n.st)
         ELSE Ok([n.st EXCEPT
                      !.edges = NodeConnect(
                                    NodeConnect(@, sourceNode, PanNode),
                                    PanNode, Destination),
                      !.connectedSources = SetAdd(@, sourceNode)])

\* variant: the panner is cut off from its inputs as well
disconnectStereoPannerBothWays(st) ==
    IF st.stereoPannerNode
    THEN [st EXCEPT !.edges = {e \in @ : PanNode \notin {e[1], e[2]}}]
    ELSE st

\* stereoPannerNode.disconnect() when there is a node; an error of the
\* call is logged and not thrown
disconnectStereoPanner(st) ==
    IF st.stereoPannerNode
    THEN [st EXCEPT !.edges = NodeDisconnect(@, PanNode)]
    ELSE st

getCurrentPanValue(st) == IF st.stereoPannerNode THEN st.pan ELSE 0

\* variant: the node is obtained through getStereoPannerNode()
getCurrentPanValueCallLazy(st) ==
    LET n == getStereoPannerNode(st, 0, NoFaults) IN
    [st |-> n.st, value |-> n.st.pan]

\* a call of getCurrentPanValue: the state it leaves and what it returns
getCurrentPanValueCall(st) == [st |-> st, value |-> getCurrentPanValue(st)]

getCurrentAudioMode(st) == st.currentAudioMode

\* variant: the switch on currentAudioMode is missing, every source is
\* connected to the destination
connectAudioSourceAlwaysDirect(st, sourceNode, env) ==
    LET c == getAudioContext(st, env) IN
    IF c.threw THEN c
    ELSE LET t == [c.st EXCEPT !.connectedSources = SetAdd(@, sourceNode)] IN
         IF sourceNode \in env.failing
         THEN Throw(t)
         ELSE Ok([t EXCEPT !.edges = NodeConnect(@, sourceNode, Destination)])

\* variant: hrtf is routed through the panner as well
connectAudioSourceHrtfPanned(st, sourceNode, env) ==
    LET c == getAudioContext(st, env) IN
    IF c.threw THEN c
    ELSE LET t == [c.st EXCEPT !.connectedSources = SetAdd(@, sourceNode)] IN
         IF t.currentAudioMode \in {"stereopanner", "hrtf"}
         THEN connectAudioThroughStereoPanner(t, sourceNode, 0, env)
         ELSE IF sourceNode \in env.failing
              THEN Throw(t)
              ELSE Ok([t EXCEPT !.edges =
                           NodeConnect(@, sourceNode, Destination)])

\* variant: the catch of connectAudioSource does not rethrow
connectAudioSourceSwallow(st, sourceNode, env) ==
    LET c == getAudioContext(st, env) IN
    IF c.threw THEN c
    ELSE LET t == [c.st EXCEPT !.connectedSources = SetAdd(@, sourceNode)] IN
         IF t.currentAudioMode = "stereopanner"
         THEN Ok(connectAudioThroughStereoPanner(t, sourceNode, 0, env).st)
         ELSE IF sourceNode \in env.failing
              THEN Ok(t)
              ELSE Ok([t EXCEPT !.edges =
                           NodeConnect(@, sourceNode, Destination)])

\* variant: the source is added to connectedSources after it was connected
connectAudioSourceAddLast(st, sourceNode, env) ==
    LET c == getAudioContext(st, env) IN
    IF c.threw THEN c
    ELSE LET r == IF c.st.currentAudioMode = "stereopanner"
                  THEN connectAudioThroughStereoPanner(c.st, sourceNode, 0,
                                                       env)
                  ELSE IF sourceNode \in env.failing
                       THEN Throw(c.st)
                       ELSE Ok([c.st EXCEPT !.edges =
                                    NodeConnect(@, sourceNode, Destination)])
         IN  IF r.threw THEN r
             ELSE Ok([r.st EXCEPT !.connectedSources = SetAdd(@, sourceNode)])

connectAudioSource(st, sourceNode, env) ==
    LET c == getAudioContext(st, env) IN
    IF c.threw THEN c
    ELSE LET t == [c.st EXCEPT !.connectedSources = SetAdd(@, sourceNode)] IN
         IF t.currentAudioMode = "stereopanner"
         THEN connectAudioThroughStereoPanner(t, sourceNode, 0, env)
         ELSE IF sourceNode \in env.failing
              THEN Throw(t)
              ELSE Ok([t EXCEPT !.edges =
                           NodeConnect(@, sourceNode, Destination)])

\* variant: the sources are not disconnected before the mode changes
disconnectLoopNone(st, n, env) == st

\* connectedSources.forEach(source => source.disconnect()), first n sources
\* a disconnect() that throws is caught inside the iteration and has
\* removed nothing
RECURSIVE disconnectLoop(_, _, _)
disconnectLoop(st, n, env) ==
    IF n = 0 THEN st
    ELSE LET p == disconnectLoop(st, n - 1, env) IN
         IF st.connectedSources[n] \in env.stuck
         THEN p
         ELSE [p EXCEPT !.edges = NodeDisconnect(@, st.connectedSources[n])]

\* variant: disconnectStereoPanner() is not called after the loop
disconnectAllSourcesKeepPanner(st, env) ==
    disconnectLoop(st, Len(st.connectedSources), env)

\* variant: the sources that were disconnected are no longer tracked
disconnectAllSourcesForget(st, env) ==
    [disconnectStereoPanner(
         disconnectLoop(st, Len(st.connectedSources), env))
     EXCEPT !.connectedSources = <<>>]

disconnectAllSources(st, env) ==
    disconnectStereoPanner(disconnectLoop(st, Len(st.connectedSources), env))

\* variant: the panner is not connected to the destination again
reconnectOneNoPanOut(st, source, mode, env) ==
    IF source \in env.failing
    THEN st
    ELSE [st EXCEPT !.edges =
             NodeConnect(@, source,
                 IF mode = "stereopanner" THEN PanNode ELSE Destination)]

\* one iteration of the forEach of _reconnectSourcesWithMode; the catch of
\* the iteration keeps whatever the failed attempt had already changed
reconnectOne(st, source, mode, env) ==
    IF mode = "stereopanner"
    THEN connectAudioThroughStereoPanner(st, source, 0, env).st
    ELSE IF source \in env.failing
         THEN st
         ELSE [st EXCEPT !.edges = NodeConnect(@, source, Destination)]

\* variant: no try/catch inside the forEach, the first failing source ends
\* the loop
RECURSIVE reconnectLoopAbort(_, _, _, _, _)
reconnectLoopAbort(st, srcs, mode, env, n) ==
    IF n = 0 THEN st
    ELSE LET p == reconnectLoopAbort(st, srcs, mode, env, n - 1) IN
         IF \E i \in 1..(n - 1) : srcs[i] \in env.failing
         THEN p
         ELSE reconnectOne(p, srcs[n], mode, env)

RECURSIVE reconnectLoop(_, _, _, _, _)
reconnectLoop(st, srcs, mode, env, n) ==
    IF n = 0 THEN st
    ELSE reconnectOne(reconnectLoop(st, srcs, mode, env, n - 1),
                      srcs[n], mode, env)

reconnectSourcesWithMode(st, mode, env) ==
    LET c == getAudioContext(st, env) IN
    IF c.threw THEN c
    ELSE Ok(reconnectLoop(c.st, c.st.connectedSources, mode, env,
                          Len(c.st.connectedSources)))

\* variant: currentAudioMode is assigned first, before the disconnects
setAudioModeStepsRecordFirst(st, mode, env) ==
    LET srcs == st.connectedSources
        k == Len(srcs)
        m == [st EXCEPT !.currentAudioMode = mode]
        d == disconnectAllSources(m, env)
        c == getAudioContext(d, env)
    IN  <<[at |-> "entry", st |-> st], [at |-> "record", st |-> m]>>
        \o [i \in 1..k |-> [at |-> "disconnect", st |-> disconnectLoop(m, i, env)]]
        \o <<[at |-> "disconnectPanner", st |-> d]>>
        \o (IF c.threw THEN <<>>
            ELSE [i \in 1..k |->
                     [at |-> "reconnect",
                      st |-> reconnectLoop(c.st, srcs, mode, env, i)]])
        \o <<[at |-> IF c.threw THEN "throw" ELSE "return",
               st |-> reconnectSourcesWithMode(d, mode, env).st]>>

\* variant: a call with the mode that is already current returns at once
setAudioModeStepsSkipSame(st, mode, env) ==
    LET srcs == st.connectedSources
        k == Len(srcs)
        d == disconnectAllSources(st, env)
        m == [d EXCEPT !.currentAudioMode = mode]
        c == getAudioContext(m, env)
    IN  IF mode = st.currentAudioMode
        THEN <<[at |-> "entry", st |-> st], [at |-> "return", st |-> st]>>
        ELSE <<[at |-> "entry", st |-> st]>>
             \o [i \in 1..k |->
                    [at |-> "disconnect", st |-> disconnectLoop(st, i, env)]]
             \o <<[at |-> "disconnectPanner", st |-> d],
                   [at |-> "record", st |-> m]>>
             \o (IF c.threw THEN <<>>
                 ELSE [i \in 1..k |->
                          [at |-> "reconnect",
                           st |-> reconnectLoop(c.st, srcs, mode, env, i)]])
             \o <<[at |-> IF c.threw THEN "throw" ELSE "return",
                    st |-> reconnectSourcesWithMode(m, mode, env).st]>>

\* variant: the catch of setAudioMode restores the mode of the entry
setAudioModeStepsRollback(st, mode, env) ==
    LET srcs == st.connectedSources
        k == Len(srcs)
        d == disconnectAllSources(st, env)
        m == [d EXCEPT !.currentAudioMode = mode]
        c == getAudioContext(m, env)
    IN  <<[at |-> "entry", st |-> st]>>
        \o [i \in 1..k |->
               [at |-> "disconnect", st |-> disconnectLoop(st, i, env)]]
        \o <<[at |-> "disconnectPanner", st |-> d],
              [at |-> "record", st |-> m]>>
        \o (IF c.threw
            THEN <<[at |-> "throw",
                    st |-> [c.st EXCEPT
                               !.currentAudioMode = st.currentAudioMode]]>>
            ELSE [i \in 1..k |->
                     [at |-> "reconnect",
                      st |-> reconnectLoop(c.st, srcs, mode, env, i)]]
                 \o <<[at |-> "return",
                        st |-> reconnectSourcesWithMode(m, mode, env).st]>>)

\* setAudioMode statement by statement: the state on entry, after each
\* source.disconnect(), after disconnectStereoPanner(), after the assignment
\* of currentAudioMode, and after each iteration of the reconnect loop
\* (none when getAudioContext throws)
setAudioModeSteps(st, mode, env) ==
    LET srcs == st.connectedSources
        k == Len(srcs)
        d == disconnectAllSources(st, env)
        m == [d EXCEPT !.currentAudioMode = mode]
        c == getAudioContext(m, env)
    IN  <<[at |-> "entry", st |-> st]>>
        \o [i \in 1..k |-> [at |-> "disconnect", st |-> disconnectLoop(st, i, env)]]
        \o <<[at |-> "disconnectPanner", st |-> d],
              [at |-> "record", st |-> m]>>
        \o (IF c.threw THEN <<>>
            ELSE [i \in 1..k |->
                     [at |-> "reconnect",
                      st |-> reconnectLoop(c.st, srcs, mode, env, i)]])
        \o <<[at |-> IF c.threw THEN "throw" ELSE "return",
               st |-> reconnectSourcesWithMode(m, mode, env).st]>>

setAudioMode(st, mode, env) ==
    LET t == setAudioModeSteps(st, mode, env) IN
    [st |-> t[Len(t)].st, threw |-> t[Len(t)].at = "throw", steps |-> t]

\* ------------------------------------------- the superseded copy
\* the second copy of the module in the source: its own audioContext and
\* stereoPannerNode, no mode and no connectedSources
SupersededInit ==
    [audioContext |-> FALSE, stereoPannerNode |-> FALSE, pan |-> 0,
     panEvents |-> {}, currentTime |-> 0, edges |-> {}]

getAudioContextSuperseded(o, env) ==
    IF o.audioContext
    THEN Ok(o)
    ELSE IF env.ctxOk
         THEN Ok([o EXCEPT !.audioContext = TRUE])
         ELSE Throw(o)

getStereoPannerNodeSuperseded(o, panValue, env) ==
    LET c == getAudioContextSuperseded(o, env) IN
    IF c.threw THEN c
    ELSE IF c.st.stereoPannerNode
         THEN c
         ELSE IF env.panOk
              THEN Ok([c.st EXCEPT !.stereoPannerNode = TRUE,
                                   !.pan = Clamp(panValue)])
              ELSE Throw(c.st)

setPanValueSuperseded(o, panValue, when, env) ==
    LET n == getStereoPannerNodeSuperseded(o, 0, env)
        clampedPanValue == Clamp(panValue)
    IN  IF n.threw THEN n
        ELSE IF when # Undefined
             THEN Ok([n.st EXCEPT !.panEvents =
                          SetValueAtTime(@, clampedPanValue, when)])
             ELSE Ok([n.st EXCEPT
                          !.pan = clampedPanValue,
                          !.panEvents = {e \in @ : e[1] > n.st.currentTime}])

\* variant: the panner is not connected to the destination
connectAudioThroughStereoPannerSupersededNoOut(o, sourceNode, panValue, env) ==
    LET n == getStereoPannerNodeSuperseded(o, panValue, env) IN
    IF n.threw THEN n
    ELSE IF sourceNode \in env.failing
         THEN Throw(n.st)
         ELSE Ok([n.st EXCEPT !.edges = NodeConnect(@, sourceNode, PanNode)])

connectAudioThroughStereoPannerSuperseded(o, sourceNode, panValue, env) ==
    LET n == getStereoPannerNodeSuperseded(o, panValue, env) IN
    IF n.threw THEN n
    ELSE IF sourceNode \in env.failing
         THEN Throw(n.st)
         ELSE Ok([n.st EXCEPT !.edges =
                      NodeConnect(NodeConnect(@, sourceNode, PanNode),
                                  PanNode, Destination)])

disconnectStereoPannerSuperseded(o) ==
    IF o.stereoPannerNode
    THEN [o EXCEPT !.edges = NodeDisconnect(@, PanNode)]
    ELSE o

getCurrentPanValueSuperseded(o) == IF o.stereoPannerNode THEN o.pan ELSE 0

\* ---------------------------------------------------------- test helpers
\* AudioParam.linearRampToValueAtTime(value, endTime): at endTime the
\* parameter has reached value; the ramps of the sweep last one tick each
LinearRampToValueAtTime(ev, value, endTime) == SetValueAtTime(ev, value, endTime)

\* halfDuration = duration / 2, in ticks of the clock
HalfDuration == 1

ThroughPanner(gainNode) == {<<gainNode, PanNode>>, <<PanNode, Destination>>}
ToDestination(gainNode) == {<<gainNode, Destination>>}

\* the test tone is set up: a new oscillator into a new gain node, the gain
\* node through the panner or to the destination, the test is counted
\* and its cleanup timer is started
StartTone(st, throughPanner) ==
    LET id == st.testsStarted + 1 IN
    [st EXCEPT !.testsStarted = id,
               !.edges = NodeConnect(@, OscillatorNames[id], GainNames[id])
                             \cup (IF throughPanner
                                   THEN ThroughPanner(GainNames[id])
                                   ELSE ToDestination(GainNames[id])),
               !.timers = @ \cup {id}]

\* testStereoPanner(panValue): in stereopanner mode the pan is set and the
\* gain node is connected to the panner, the panner to the destination;
\* in every other mode the gain node is connected to the destination
testStereoPanner(st, panValue, env) ==
    LET c == getAudioContext(st, env) IN
    IF c.threw THEN c
    ELSE IF c.st.currentAudioMode = "stereopanner"
         THEN LET n == getStereoPannerNode(c.st, 0, env)
                  p == setPanValue(n.st, panValue, Undefined, env)
              IN  IF n.threw THEN n
                  ELSE IF p.threw THEN p
                  ELSE Ok(StartTone(p.st, TRUE))
         ELSE Ok(StartTone(c.st, FALSE))

\* testStereoPannerSweep(): stereopanner mode is entered if needed, the
\* gain node is connected to the panner, the panner to the destination,
\* and the pan is scheduled to -1 now, 1 at half time, -1 at the end
testStereoPannerSweep(st, env) ==
    LET c == getAudioContext(st, env) IN
    IF c.threw THEN c
    ELSE LET m == IF c.st.currentAudioMode # "stereopanner"
                  THEN setAudioMode(c.st, "stereopanner", env)
                  ELSE Ok(c.st)
             n == getStereoPannerNode(m.st, 0, env)
             now == n.st.currentTime
         IN  IF m.threw THEN Throw(m.st)
             ELSE IF n.threw THEN n
             ELSE Ok([StartTone(n.st, TRUE) EXCEPT !.panEvents =
                 LinearRampToValueAtTime(
                     LinearRampToValueAtTime(
                         SetValueAtTime(@, -PanOne, now),
                         PanOne, now + HalfDuration),
                     -PanOne, now + 2 * HalfDuration)])

\* variant: the three steps are scheduled right, centre, left
testStereoPannerSequenceReversed(st, env) ==
    LET m == IF st.currentAudioMode # "stereopanner"
             THEN setAudioMode(st, "stereopanner", env)
             ELSE Ok(st)
    IN  IF m.threw THEN Throw(m.st)
        ELSE Ok([m.st EXCEPT !.sequence = <<PanOne, 0, -PanOne>>])

\* testStereoPannerSequence(): stereopanner mode is entered if needed and
\* three timers are started, for testStereoPanner(-1) at once,
\* testStereoPanner(0) after stepDuration and testStereoPanner(1) after
\* twice stepDuration; timers of growing delay fire in that order
testStereoPannerSequence(st, env) ==
    LET m == IF st.currentAudioMode # "stereopanner"
             THEN setAudioMode(st, "stereopanner", env)
             ELSE Ok(st)
    IN  IF m.threw THEN Throw(m.st)
        ELSE Ok([m.st EXCEPT !.sequence = <<-PanOne, 0, PanOne>>])

\* the next timer of the sequence fires: testStereoPanner with its pan value
sequenceStep(st, env) ==
    LET r == testStereoPanner([st EXCEPT !.sequence = Tail(@)],
                              Head(st.sequence), env)
    IN  r

\* variant: the cleanup disconnects the panner as well
cleanupWithPanner(st, id) ==
    [st EXCEPT !.edges = NodeDisconnect(NodeDisconnect(NodeDisconnect(@,
                             OscillatorNames[id]), GainNames[id]), PanNode),
               !.timers = @ \ {id}]

\* the callback of the cleanup timer: oscillator.disconnect() and
\* gainNode.disconnect(); disconnect() without arguments does not throw
\* on a node without connections
cleanup(st, id) ==
    [st EXCEPT !.edges = NodeDisconnect(NodeDisconnect(@,
                             OscillatorNames[id]), GainNames[id]),
               !.timers = @ \ {id}]

\* variant: _handleSoundOptionChange without its try/catch
handleSoundOptionChangeNoCatch(st, soundOption, env) ==
    LET r == setAudioMode(st, soundOption, env) IN
    [st |-> r.st, threw |-> r.threw,
     warned |-> (~r.threw /\ soundOption \notin KnownModes),
     errored |-> r.threw, steps |-> r.steps]

\* variant: the switch has no default case
handleSoundOptionChangeSilent(st, soundOption, env) ==
    LET r == setAudioMode(st, soundOption, env) IN
    [st |-> r.st, threw |-> FALSE, warned |-> FALSE, errored |-> r.threw,
     steps |-> r.steps]

\* _handleSoundOptionChange: the error of setAudioMode is caught and logged,
\* the warning of the switch is reached only when setAudioMode returned
handleSoundOptionChange(st, soundOption, env) ==
    LET r == setAudioMode(st, soundOption, env) IN
    [st |-> r.st, threw |-> FALSE,
     warned |-> (~r.threw /\ soundOption \notin KnownModes),
     errored |-> r.threw, steps |-> r.steps]

\* ----------------------------------------------------------------- actions
\* lastOp: the operation, its arguments, whether it threw, whether it logged
\* a warning about the mode, the mode on entry of a mode change, the
\* sources whose connection failed during the call, and the platform call
\* that threw during the call
NoOp == [op |-> "init", src |-> "", mode |-> "", value |-> 0,
         when |-> Undefined, threw |-> FALSE, warned |-> FALSE,
         from |-> "", tracked |-> FALSE, failed |-> {}, fault |-> "none",
         stuck |-> {}, action |-> "", forwarded |-> FALSE,
         returned |-> [threw |-> FALSE, value |-> 0],
         supersededReturned |-> [threw |-> FALSE, value |-> 0]]

\* the platform call that throws in a call made in state st under env:
\* `new AudioContext()' when there is no context yet, createStereoPanner()
\* when the call needs the panner and there is none yet, or the connect()
\* of one of the sources the call connects
FaultOf(st, env, needsPanner, connects) ==
    IF ~st.audioContext /\ ~env.ctxOk THEN "context"
    ELSE IF needsPanner /\ ~st.stereoPannerNode /\ ~env.panOk THEN "panner"
    ELSE IF connects \cap env.failing # {} THEN "connect"
    ELSE "none"

\* the tracked sources whose iteration of the reconnect loop throws
FailedSources(st, mode, env) ==
    IF mode = "stereopanner" /\ ~st.stereoPannerNode /\ ~env.panOk
    THEN Range(st.connectedSources)
    ELSE Range(st.connectedSources) \cap env.failing

\* what an observer of the graph sees at one step of setAudioMode
Observed(t) == [i \in 1..Len(t) |->
                  [at |-> t[i].at, mode |-> t[i].st.currentAudioMode,
                   edges |-> t[i].st.edges]]

Become(st) ==
    /\ audioContext' = st.audioContext
    /\ stereoPannerNode' = st.stereoPannerNode
    /\ pan' = st.pan
    /\ panEvents' = st.panEvents
    /\ currentTime' = st.currentTime
    /\ currentAudioMode' = st.currentAudioMode
    /\ connectedSources' = st.connectedSources
    /\ edges' = st.edges
    /\ contextsCreated' = st.contextsCreated
    /\ pannersCreated' = st.pannersCreated
    /\ testsStarted' = st.testsStarted
    /\ timers' = st.timers
    /\ sequence' = st.sequence
    /\ superseded' = st.superseded

Init ==
    /\ audioContext = FALSE
    /\ stereoPannerNode = FALSE
    /\ pan = 0
    /\ panEvents = {}
    /\ currentTime = 0
    /\ currentAudioMode = "default"
    /\ connectedSources = <<>>
    /\ edges = {}
    /\ contextsCreated = 0
    /\ pannersCreated = 0
    /\ testsStarted = 0
    /\ timers = {}
    /\ sequence = <<>>
    /\ superseded = SupersededInit
    /\ lastOp = NoOp
    /\ steps = <<>>

GetAudioContext(env) ==
    LET r == getAudioContext(State, env) IN
    /\ Become(r.st)
    /\ lastOp' = [NoOp EXCEPT !.op = "getAudioContext", !.threw = r.threw,
                              !.fault = FaultOf(State, env, FALSE, {})]
    /\ steps' = <<>>

GetStereoPannerNode(panValue, env) ==
    LET r == getStereoPannerNode(State, panValue, env) IN
    /\ Become(r.st)
    /\ lastOp' = [NoOp EXCEPT !.op = "getStereoPannerNode",
                              !.value = panValue, !.threw = r.threw,
                              !.fault = FaultOf(State, env, TRUE, {})]
    /\ steps' = <<>>

SetPanValue(panValue, when, env) ==
    LET r == setPanValue(State, panValue, when, env) IN
    /\ Become(r.st)
    /\ lastOp' = [NoOp EXCEPT !.op = "setPanValue", !.value = panValue,
                              !.when = when, !.threw = r.threw,
                              !.fault = FaultOf(State, env, TRUE, {})]
    /\ steps' = <<>>

DisconnectStereoPanner ==
    /\ Become(disconnectStereoPanner(State))
    /\ lastOp' = [NoOp EXCEPT !.op = "disconnectStereoPanner"]
    /\ steps' = <<>>

ConnectAudioSource(sourceNode, env) ==
    LET r == connectAudioSource(State, sourceNode, env) IN
    /\ Become(r.st)
    /\ lastOp' = [NoOp EXCEPT
           !.op = "connectAudioSource", !.src = sourceNode,
           !.threw = r.threw,
           !.tracked = (sourceNode \in Range(connectedSources)),
           !.failed = IF r.threw /\ r.st.audioContext
                      THEN {sourceNode} ELSE {},
           !.fault = FaultOf(State, env, currentAudioMode = "stereopanner",
                             {sourceNode})]
    /\ steps' = <<>>

SetAudioMode(mode, env) ==
    LET r == setAudioMode(State, mode, env) IN
    /\ Become(r.st)
    /\ lastOp' = [NoOp EXCEPT
           !.op = "setAudioMode", !.mode = mode, !.threw = r.threw,
           !.from = currentAudioMode,
           !.failed = IF r.threw THEN {}
                      ELSE FailedSources(State, mode, env),
           !.stuck = Range(connectedSources) \cap env.stuck,
           !.fault = FaultOf(State, env,
                             mode = "stereopanner" /\ connectedSources # <<>>,
                             Range(connectedSources))]
    /\ steps' = Observed(r.steps)

HandleSoundOptionChange(soundOption, env) ==
    LET r == handleSoundOptionChange(State, soundOption, env) IN
    /\ Become(r.st)
    /\ lastOp' = [NoOp EXCEPT
           !.op = "handleSoundOptionChange", !.mode = soundOption,
           !.threw = r.threw, !.warned = r.warned,
           !.from = currentAudioMode,
           !.failed = IF r.errored THEN {}
                      ELSE FailedSources(State, soundOption, env),
           !.fault = FaultOf(State, env,
                             soundOption = "stereopanner"
                                 /\ connectedSources # <<>>,
                             Range(connectedSources))]
    /\ steps' = Observed(r.steps)

GetCurrentPanValue ==
    LET r == getCurrentPanValueCall(State) IN
    /\ Become(r.st)
    /\ lastOp' = [NoOp EXCEPT !.op = "getCurrentPanValue", !.value = r.value]
    /\ steps' = <<>>

TestStereoPanner(panValue, env) ==
    LET r == testStereoPanner(State, panValue, env) IN
    /\ testsStarted < MaxTests
    /\ Become(r.st)
    /\ lastOp' = [NoOp EXCEPT !.op = "testStereoPanner", !.value = panValue,
                              !.from = currentAudioMode, !.threw = r.threw]
    /\ steps' = <<>>

TestStereoPannerSweep(env) ==
    LET r == testStereoPannerSweep(State, env) IN
    /\ testsStarted < MaxTests
    /\ Become(r.st)
    /\ lastOp' = [NoOp EXCEPT !.op = "testStereoPannerSweep",
                              !.from = currentAudioMode, !.threw = r.threw]
    /\ steps' = <<>>

TestStereoPannerSequence(env) ==
    LET r == testStereoPannerSequence(State, env) IN
    /\ testsStarted < MaxTests
    /\ sequence = <<>>
    /\ Become(r.st)
    /\ lastOp' = [NoOp EXCEPT !.op = "testStereoPannerSequence",
                              !.from = currentAudioMode, !.threw = r.threw]
    /\ steps' = <<>>

\* the next timer of the sequence fires
SequenceStep(env) ==
    LET r == sequenceStep(State, env) IN
    /\ sequence # <<>>
    /\ Become(r.st)
    /\ lastOp' = [NoOp EXCEPT !.op = "sequenceStep",
                              !.value = Head(sequence),
                              !.src = GainNames[testsStarted + 1],
                              !.from = currentAudioMode, !.threw = r.threw]
    /\ steps' = <<>>

\* the cleanup timer of test tone id fires
Cleanup(id) ==
    /\ id \in timers
    /\ Become(cleanup(State, id))
    /\ lastOp' = [NoOp EXCEPT !.op = "cleanup", !.src = GainNames[id]]
    /\ steps' = <<>>

\* the middleware: a SET_SOUND_OPTION action goes to
\* _handleSoundOptionChange, any other action goes on untouched; the
\* action is passed to next() unless the handler threw before the return
Middleware(action, env) ==
    \/ /\ action.type = "SET_SOUND_OPTION"
       /\ LET r == handleSoundOptionChange(State, action.soundOption, env) IN
          /\ Become(r.st)
          /\ lastOp' = [NoOp EXCEPT
                 !.op = "middleware", !.action = action.type,
                 !.mode = action.soundOption,
                 !.threw = r.threw, !.forwarded = ~r.threw,
                 !.warned = r.warned,
                 !.from = currentAudioMode,
                 !.failed = IF r.errored THEN {}
                            ELSE FailedSources(State, action.soundOption, env),
                 !.fault = FaultOf(State, env,
                                   action.soundOption = "stereopanner"
                                       /\ connectedSources # <<>>,
                                   Range(connectedSources))]
          /\ steps' = Observed(r.steps)
    \/ /\ action.type # "SET_SOUND_OPTION"
       /\ Become(State)
       /\ lastOp' = [NoOp EXCEPT
              !.op = "middleware", !.action = action.type,
              !.forwarded = TRUE]
       /\ steps' = <<>>

\* the audio clock advances by one tick; the scheduled events that are due
\* take effect, the latest of them giving the value
Render ==
    /\ currentTime < MaxTime
    /\ LET now == currentTime + 1
           due == {e \in panEvents : e[1] <= now}
           last == CHOOSE e \in due : \A f \in due : f[1] <= e[1]
       IN  /\ currentTime' = now
           /\ panEvents' = panEvents \ due
           /\ pan' = IF due = {} THEN pan ELSE last[2]
    /\ lastOp' = [NoOp EXCEPT !.op = "render"]
    /\ steps' = <<>>
    /\ UNCHANGED <<audioContext, stereoPannerNode, currentAudioMode,
                   connectedSources, edges, contextsCreated, pannersCreated,
                   testsStarted, timers, sequence, superseded>>

\* the operations of the engine, the platform primitives succeeding
Next ==
    \/ GetAudioContext(NoFaults)
    \/ \E v \in PanInputs \cup {0} : GetStereoPannerNode(v, NoFaults)
    \/ \E v \in PanInputs, w \in WhenInputs(currentTime) :
          SetPanValue(v, w, NoFaults)
    \/ DisconnectStereoPanner
    \/ \E s \in Sources : ConnectAudioSource(s, NoFaults)
    \/ \E m \in ModeStrings : SetAudioMode(m, NoFaults)
    \/ \E m \in ModeStrings : HandleSoundOptionChange(m, NoFaults)
    \/ Render

Spec == Init /\ [][Next]_vars

\* the same operations when `new AudioContext()' or a source's connect()
\* may throw; the pan is written immediately and the clock stands still
FaultModes == {"default", "stereopanner", "surround"}

NextFaults ==
    \/ \E env \in ContextFaults : GetAudioContext(env)
    \/ \E env \in CreationFaults : GetStereoPannerNode(0, env)
    \/ \E env \in CreationFaults : SetPanValue(7, Undefined, env)
    \/ DisconnectStereoPanner
    \/ \E s \in Sources : \E env \in Faults({s}) : ConnectAudioSource(s, env)
    \/ \E m \in FaultModes, env \in Faults(Range(connectedSources)) :
          SetAudioMode(m, env)

SpecFaults == Init /\ [][NextFaults]_vars

\* a call of the exported connectAudioThroughStereoPanner
ConnectAudioThroughStereoPanner(sourceNode, panValue, env) ==
    LET r == connectAudioThroughStereoPanner(State, sourceNode, panValue, env)
    IN  /\ Become(r.st)
        /\ lastOp' = [NoOp EXCEPT
               !.op = "connectAudioThroughStereoPanner", !.src = sourceNode,
               !.value = panValue, !.threw = r.threw,
               !.from = currentAudioMode,
               !.tracked = (sourceNode \in Range(connectedSources)),
               !.fault = FaultOf(State, env, TRUE, {sourceNode})]
        /\ steps' = <<>>

\* what a call returned: did it throw, and the number it returned or the
\* pan value of the panner it returned (0 for a context and for void)
Returned(threw, value) == [threw |-> threw, value |-> IF threw THEN 0 ELSE value]

\* the same call made on both copies of the module, under the same platform
Both(op, r, o, src, value, when, ret, oret) ==
    /\ Become([r.st EXCEPT !.superseded = o.st])
    /\ lastOp' = [NoOp EXCEPT
           !.op = op, !.src = src, !.value = value, !.when = when,
           !.threw = r.threw,
           !.returned = Returned(r.threw, ret),
           !.supersededReturned = Returned(o.threw, oret)]
    /\ steps' = <<>>

BothGetAudioContext(env) ==
    Both("getAudioContext", getAudioContext(State, env),
         getAudioContextSuperseded(superseded, env), "", 0, Undefined, 0, 0)

BothGetStereoPannerNode(panValue, env) ==
    LET r == getStereoPannerNode(State, panValue, env)
        o == getStereoPannerNodeSuperseded(superseded, panValue, env)
    IN  Both("getStereoPannerNode", r, o, "", panValue, Undefined,
             r.st.pan, o.st.pan)

BothSetPanValue(panValue, when, env) ==
    Both("setPanValue", setPanValue(State, panValue, when, env),
         setPanValueSuperseded(superseded, panValue, when, env),
         "", panValue, when, 0, 0)

BothConnectAudioThroughStereoPanner(sourceNode, panValue, env) ==
    LET r == connectAudioThroughStereoPanner(State, sourceNode, panValue, env)
        o == connectAudioThroughStereoPannerSuperseded(superseded, sourceNode,
                                                       panValue, env)
    IN  Both("connectAudioThroughStereoPanner", r, o, sourceNode, panValue,
             Undefined, r.st.pan, o.st.pan)

BothDisconnectStereoPanner ==
    Both("disconnectStereoPanner", Ok(disconnectStereoPanner(State)),
         Ok(disconnectStereoPannerSuperseded(superseded)),
         "", 0, Undefined, 0, 0)

BothGetCurrentPanValue ==
    Both("getCurrentPanValue", Ok(State), Ok(superseded), "", 0, Undefined,
         getCurrentPanValue(State), getCurrentPanValueSuperseded(superseded))

\* one tick of the clock of a context: the due events of its panner apply
AdvanceClock(o) ==
    LET now == o.currentTime + 1
        due == {e \in o.panEvents : e[1] <= now}
        last == CHOOSE e \in due : \A f \in due : f[1] <= e[1]
    IN  [o EXCEPT !.currentTime = now,
                  !.panEvents = @ \ due,
                  !.pan = IF due = {} THEN @ ELSE last[2]]

\* the clocks of the two contexts advance together
RenderBoth ==
    /\ currentTime < MaxTime
    /\ Become(AdvanceClock([State EXCEPT
                               !.superseded = AdvanceClock(superseded)]))
    /\ lastOp' = [NoOp EXCEPT !.op = "render"]
    /\ steps' = <<>>

\* the operations the two copies share, called on both
NextVariants ==
    \/ \E env \in ContextFaults : BothGetAudioContext(env)
    \/ \E v \in PanInputs \cup {0}, env \in CreationFaults :
          BothGetStereoPannerNode(v, env)
    \/ \E v \in PanInputs, w \in WhenInputs(currentTime) :
          \E env \in CreationFaults : BothSetPanValue(v, w, env)
    \/ \E s \in Sources, v \in PanInputs \cup {0} : \E env \in Faults({s}) :
          BothConnectAudioThroughStereoPanner(s, v, env)
    \/ BothDisconnectStereoPanner
    \/ BothGetCurrentPanValue
    \/ RenderBoth

SpecVariants == Init /\ [][NextVariants]_vars

\* the actions the store dispatches through the middleware
ReduxActions ==
    [type : {"SET_SOUND_OPTION"}, soundOption : FaultModes]
        \cup {[type |-> "OTHER_ACTION", soundOption |-> ""]}

\* the UI dispatching actions while sources are being connected, the
\* platform calls failing or not
NextMiddleware ==
    \/ \E a \in ReduxActions, env \in Faults(Range(connectedSources)) :
          Middleware(a, env)
    \/ \E s \in Sources : \E env \in Faults({s}) : ConnectAudioSource(s, env)

SpecMiddleware == Init /\ [][NextMiddleware]_vars

\* a holder of a source node calls its disconnect() without the engine:
\* every outgoing edge of the source goes, the engine's state stays
ExternalDisconnect(sourceNode) ==
    /\ edges' = NodeDisconnect(edges, sourceNode)
    /\ lastOp' = [NoOp EXCEPT !.op = "externalDisconnect", !.src = sourceNode]
    /\ steps' = <<>>
    /\ UNCHANGED <<audioContext, stereoPannerNode, pan, panEvents,
                   currentTime, currentAudioMode, connectedSources,
                   contextsCreated, pannersCreated, testsStarted, timers,
                   sequence, superseded>>

\* connecting, mode changes and disconnectStereoPanner, with the sources'
\* owners disconnecting them behind the engine's back
NextDisrupted ==
    \/ \E s \in Sources : ConnectAudioSource(s, NoFaults)
    \/ \E m \in ModeStrings : SetAudioMode(m, NoFaults)
    \/ DisconnectStereoPanner
    \/ SetPanValue(7, Undefined, NoFaults)
    \/ \E s \in Sources : ExternalDisconnect(s)

SpecDisrupted == Init /\ [][NextDisrupted]_vars

\* mode changes in which the disconnect() of tracked sources and the
\* creation of the context may fail
NextStuck ==
    \/ \E s \in Sources : ConnectAudioSource(s, NoFaults)
    \/ \E m \in FaultModes, env \in StuckFaults(Range(connectedSources)) :
          SetAudioMode(m, env)

SpecStuck == Init /\ [][NextStuck]_vars

PanModes == {"default", "stereopanner"}

\* the engine's operations that touch sources, the panner or the pan,
\* the exported connectAudioThroughStereoPanner among them; a connect() or
\* the creation of the context or the panner may fail in the two calls
\* that connect one source
NextTracking ==
    \/ \E s \in Sources : \E env \in Faults({s}) :
          ConnectAudioSource(s, env)
    \/ \E s \in Sources : \E env \in Faults({s}) :
          ConnectAudioThroughStereoPanner(s, 0, env)
    \/ \E m \in PanModes : SetAudioMode(m, NoFaults)
    \/ DisconnectStereoPanner
    \/ SetPanValue(7, Undefined, NoFaults)

SpecTracking == Init /\ [][NextTracking]_vars

\* the test helpers and their cleanup timers among the engine's
\* operations
TestPanInputs == {-PanOne, 0}

NextHelpers ==
    \/ \E v \in TestPanInputs : TestStereoPanner(v, NoFaults)
    \/ TestStereoPannerSweep(NoFaults)
    \/ \E id \in timers : Cleanup(id)
    \/ \E s \in Sources : ConnectAudioSource(s, NoFaults)
    \/ \E m \in PanModes : SetAudioMode(m, NoFaults)
    \/ DisconnectStereoPanner
    \/ SetPanValue(7, Undefined, NoFaults)
    \/ Render

SpecHelpers == Init /\ [][NextHelpers]_vars

\* testStereoPannerSequence, its timers and the cleanup timers of its
\* tones, among mode changes and a source being connected
NextSequence ==
    \/ TestStereoPannerSequence(NoFaults)
    \/ SequenceStep(NoFaults)
    \/ \E id \in timers : Cleanup(id)
    \/ \E m \in PanModes : SetAudioMode(m, NoFaults)
    \/ ConnectAudioSource(SourceNames[1], NoFaults)

SpecSequence == Init /\ [][NextSequence]_vars

\* the pan parameter: written, scheduled, read and rendered, with one
\* source connected in either mode
NextPan ==
    \/ \E v \in PanInputs \cup {0} : GetStereoPannerNode(v, NoFaults)
    \/ \E v \in PanInputs, w \in WhenInputs(currentTime) :
          SetPanValue(v, w, NoFaults)
    \/ GetCurrentPanValue
    \/ ConnectAudioSource(SourceNames[1], NoFaults)
    \/ \E m \in PanModes : SetAudioMode(m, NoFaults)
    \/ Render

SpecPan == Init /\ [][NextPan]_vars

\* ------------------------------------------------------------ properties
Tracked == Range(connectedSources)
Direct(s) == <<s, Destination>> \in edges
ToPan(s) == <<s, PanNode>> \in edges
PanOut == <<PanNode, Destination>> \in edges

\* the wiring rule of a mode: through the panner, or directly
WiredByMode(s) ==
    IF currentAudioMode = "stereopanner"
    THEN ToPan(s) /\ PanOut
    ELSE Direct(s)

\* the edge of a source that belongs to the other rule
OtherRuleEdge(s) ==
    IF currentAudioMode = "stereopanner" THEN Direct(s) ELSE ToPan(s)

ModeChangeOps == {"setAudioMode", "handleSoundOptionChange"}

\* C1: when setAudioMode(m) has completed, m is the current mode, every
\* source of connectedSources is wired by m's rule (source -> pan ->
\* destination for stereopanner, source -> destination for every other m)
\* and no tracked source keeps an edge of the other rule.
C1_SetModeRewiresEverySource ==
    (lastOp.op \in ModeChangeOps /\ ~lastOp.threw) =>
        /\ currentAudioMode = lastOp.mode
        /\ \A s \in Tracked : WiredByMode(s) /\ ~OtherRuleEdge(s)

C1_Witness ==
    /\ lastOp.op = "setAudioMode"
    /\ lastOp.from = "default"
    /\ currentAudioMode = "stereopanner"
    /\ Cardinality(Tracked) >= 2
    /\ \A s \in Tracked : ToPan(s) /\ ~Direct(s)

\* C2 as stated: in every state between operations every tracked source is
\* wired consistently with the current mode.
C2_Original == \A s \in Tracked : WiredByMode(s)

\* C2, amended: in every state every tracked source has the source-side
\* edge of the current mode and no other (source -> pan in stereopanner
\* mode, source -> destination otherwise); pan -> destination is present
\* after every connectAudioSource and setAudioMode in stereopanner mode
\* that wired a source, and while the mode stays stereopanner only
\* disconnectStereoPanner removes it.
C2_SourceSide ==
    \A s \in Tracked :
        IF currentAudioMode = "stereopanner"
        THEN ToPan(s) /\ ~Direct(s)
        ELSE Direct(s) /\ ~ToPan(s)

C2_PanOutAfterWiring ==
    (/\ lastOp.op \in ModeChangeOps \cup {"connectAudioSource"}
     /\ currentAudioMode = "stereopanner"
     /\ Tracked # {}) => PanOut

C2_PanOutRemoval ==
    (/\ currentAudioMode = "stereopanner"
     /\ currentAudioMode' = "stereopanner"
     /\ Tracked # {}
     /\ PanOut /\ ~PanOut') => lastOp'.op = "disconnectStereoPanner"

C2_WiredUnlessPannerDisconnected ==
    /\ [](C2_SourceSide /\ C2_PanOutAfterWiring)
    /\ [][C2_PanOutRemoval]_vars

C2_Witness ==
    /\ lastOp.op = "disconnectStereoPanner"
    /\ currentAudioMode = "stereopanner"
    /\ Cardinality(Tracked) >= 2
    /\ \A s \in Tracked : ToPan(s)
    /\ ~PanOut

\* the graph, the mode, the sources and the pan are what they were
SameRouting ==
    /\ edges' = edges
    /\ currentAudioMode' = currentAudioMode
    /\ connectedSources' = connectedSources
    /\ pan' = pan

SelfTransition ==
    /\ lastOp'.op \in ModeChangeOps
    /\ lastOp'.mode = currentAudioMode

\* C3 as stated: from any reachable state setAudioMode(getCurrentAudioMode())
\* ends with the edges, the mode, the sources and the pan it started with.
C3_Original == [][SelfTransition => SameRouting]_vars

\* the graph a mode change builds for the tracked sources
WiringOfMode ==
    IF currentAudioMode = "stereopanner"
    THEN {<<s, PanNode>> : s \in Tracked}
             \cup (IF Tracked = {} THEN {} ELSE {<<PanNode, Destination>>})
    ELSE {<<s, Destination>> : s \in Tracked}

\* C3, amended: from any reachable state in which the graph is the current
\* mode's wiring of the tracked sources (every tracked source has the edges
\* of the mode's rule, and there is no other edge),
\* setAudioMode(getCurrentAudioMode()) ends with the edges, the mode, the
\* sources and the pan it started with.
C3_SelfTransitionFromWiredState ==
    [][(SelfTransition /\ edges = WiringOfMode) => SameRouting]_vars

C3_Witness ==
    /\ lastOp.op = "setAudioMode"
    /\ lastOp.from = "stereopanner"
    /\ lastOp.mode = "stereopanner"
    /\ Cardinality(Tracked) >= 2
    /\ \A s \in Tracked : WiredByMode(s)
    /\ pan # 0

\* C4: when a source's connect throws in the reconnect loop of setAudioMode
\* the loop goes on: every other tracked source is wired by the new mode's
\* rule, wherever the failing source stands in connectedSources.
C4_ReconnectFailureIsolated ==
    (lastOp.op = "setAudioMode" /\ ~lastOp.threw) =>
        \A s \in Tracked \ lastOp.failed : WiredByMode(s)

C4_Witness ==
    /\ lastOp.op = "setAudioMode"
    /\ Len(connectedSources) >= 2
    /\ connectedSources[1] \in lastOp.failed
    /\ connectedSources[2] \notin lastOp.failed
    /\ WiredByMode(connectedSources[2])
    /\ ~Direct(connectedSources[1]) /\ ~ToPan(connectedSources[1])

\* C5: setAudioMode runs in order: up to the assignment of the mode the
\* old mode is current and edges are only removed; when the mode is
\* assigned no tracked source and not the panner has an outgoing edge;
\* sources are reconnected only after it; and at no step a tracked source
\* is connected both to the destination and to the panner.
RecordStep == CHOOSE i \in 1..Len(steps) : steps[i].at = "record"

C5_DisconnectRecordReconnect ==
    steps # <<>> =>
        /\ \E i \in 1..Len(steps) : steps[i].at = "record"
        /\ \A i \in 1..Len(steps) :
              /\ i < RecordStep =>
                    /\ steps[i].at \in {"entry", "disconnect", "disconnectPanner"}
                    /\ steps[i].mode = lastOp.from
                    /\ steps[i].edges \subseteq steps[1].edges
              /\ i = RecordStep =>
                    /\ steps[i].mode = lastOp.mode
                    /\ \A e \in steps[i].edges :
                          e[1] \notin Tracked \cup {PanNode}
              /\ i > RecordStep =>
                    /\ steps[i].at \in {"reconnect", "return", "throw"}
                    /\ steps[i].mode = lastOp.mode
              /\ \A s \in Tracked :
                    ~(/\ <<s, Destination>> \in steps[i].edges
                      /\ <<s, PanNode>> \in steps[i].edges)

C5_Witness ==
    /\ lastOp.op = "setAudioMode"
    /\ lastOp.from = "stereopanner"
    /\ lastOp.mode = "default"
    /\ Cardinality(Tracked) >= 2
    /\ Len(steps) >= 8
    /\ <<PanNode, Destination>> \in steps[1].edges
    /\ \A s \in Tracked : <<s, PanNode>> \in steps[1].edges /\ Direct(s)

\* C6: connectAudioSource(S) wires S by the current mode: through the
\* panner (S -> pan, pan -> destination) in stereopanner mode, directly to
\* the destination and with no edge to the panner in every other mode; and
\* after setAudioMode('hrtf') from default mode every tracked source is
\* connected directly and not to the panner.
C6_ConnectSourceByMode ==
    /\ (lastOp.op = "connectAudioSource" /\ ~lastOp.threw) =>
          /\ lastOp.src \in Tracked
          /\ IF currentAudioMode = "stereopanner"
             THEN ToPan(lastOp.src) /\ PanOut
             ELSE Direct(lastOp.src) /\ ~ToPan(lastOp.src)
    /\ (/\ lastOp.op \in ModeChangeOps
        /\ lastOp.from = "default"
        /\ lastOp.mode = "hrtf") =>
          \A s \in Tracked : Direct(s) /\ ~ToPan(s)

C6_Witness ==
    /\ lastOp.op = "connectAudioSource"
    /\ currentAudioMode = "hrtf"
    /\ stereoPannerNode
    /\ Direct(lastOp.src)
    /\ ~ToPan(lastOp.src)

\* C7: connectedSources holds every source once; connecting a source that
\* is already tracked leaves connectedSources as it is and still wires the
\* source by the current mode.
C7_NoDuplicates == Cardinality(Tracked) = Len(connectedSources)

C7_SecondConnectWires ==
    (lastOp.op = "connectAudioSource" /\ lastOp.tracked /\ ~lastOp.threw) =>
        lastOp.src \in Tracked /\ WiredByMode(lastOp.src)

C7_ConnectedSourcesIsASet ==
    /\ [](C7_NoDuplicates /\ C7_SecondConnectWires)
    /\ [][(lastOp'.op = "connectAudioSource" /\ lastOp'.tracked)
              => connectedSources' = connectedSources]_vars

C7_Witness ==
    /\ lastOp.op = "connectAudioSource"
    /\ lastOp.tracked
    /\ Len(connectedSources) >= 2
    /\ lastOp.src = connectedSources[1]
    /\ currentAudioMode = "stereopanner"
    /\ WiredByMode(lastOp.src)

\* what getCurrentPanValue returns
PanRead == getCurrentPanValue(State)

\* max(-1, min(1, v))
ExpectedPan(v) ==
    IF v < -PanOne THEN -PanOne ELSE IF v > PanOne THEN PanOne ELSE v

InPanRange(v) == -PanOne <= v /\ v <= PanOne

\* C8 as stated: after setPanValue(v), with or without `when',
\* getCurrentPanValue returns max(-1, min(1, v)).
C8_Original ==
    (lastOp.op = "setPanValue" /\ ~lastOp.threw) =>
        PanRead = ExpectedPan(lastOp.value)

\* C8, amended: after setPanValue(v) without `when' getCurrentPanValue
\* returns max(-1, min(1, v)); with `when' the clamped value is scheduled
\* for that time, getCurrentPanValue keeps returning the value it returned
\* before, and returns the clamped value when the context clock reaches
\* `when'; the pan value and every scheduled value are within [-1, 1] in
\* every reachable state.
C8_Immediate ==
    (lastOp.op = "setPanValue" /\ lastOp.when = Undefined /\ ~lastOp.threw) =>
        PanRead = ExpectedPan(lastOp.value)

C8_Scheduled ==
    (lastOp.op = "setPanValue" /\ lastOp.when # Undefined /\ ~lastOp.threw) =>
        <<lastOp.when, ExpectedPan(lastOp.value)>> \in panEvents

C8_InRange ==
    /\ InPanRange(PanRead)
    /\ \A e \in panEvents : InPanRange(e[2])

C8_ScheduledKeepsValue ==
    (lastOp'.op = "setPanValue" /\ lastOp'.when # Undefined) =>
        PanRead' = PanRead

C8_DueEventApplied ==
    \A e \in panEvents :
        (currentTime < e[1] /\ e[1] = currentTime') => PanRead' = e[2]

C8_PanClamped ==
    /\ [](C8_Immediate /\ C8_Scheduled /\ C8_InRange)
    /\ [][C8_ScheduledKeepsValue /\ C8_DueEventApplied]_vars

C8_Witness ==
    /\ lastOp.op = "setPanValue"
    /\ lastOp.value < -PanOne
    /\ lastOp.when # Undefined
    /\ <<lastOp.when, -PanOne>> \in panEvents
    /\ PanRead = 7

\* C9: setAudioMode, connectAudioSource, disconnectStereoPanner and
\* getStereoPannerNode on an existing panner leave the pan value (what
\* getCurrentPanValue returns, and the scheduled changes) as it was.
C9_PanUntouched ==
    [][(\/ lastOp'.op \in ModeChangeOps
        \/ lastOp'.op \in {"connectAudioSource", "disconnectStereoPanner"}
        \/ lastOp'.op = "getStereoPannerNode" /\ stereoPannerNode)
          => (PanRead' = PanRead /\ panEvents' = panEvents)]_vars

C9_Witness ==
    /\ lastOp.op = "setAudioMode"
    /\ lastOp.from = "default"
    /\ lastOp.mode = "stereopanner"
    /\ Tracked # {}
    /\ \A s \in Tracked : WiredByMode(s)
    /\ PanRead = 7

PanOutgoing == {e \in edges : e[1] = PanNode}

C11_NonPannerModeIsDirect ==
    (/\ lastOp.op \in ModeChangeOps
     /\ ~lastOp.threw
     /\ lastOp.mode # "stereopanner") =>
        /\ PanOutgoing = {}
        /\ \A s \in Tracked : Direct(s)

C11_Witness ==
    /\ lastOp.op = "setAudioMode"
    /\ lastOp.from = "stereopanner"
    /\ lastOp.mode = "equalpower"
    /\ stereoPannerNode
    /\ Cardinality(Tracked) >= 2
    /\ <<PanNode, Destination>> \in steps[1].edges
    /\ \A s \in Tracked : <<s, PanNode>> \in steps[1].edges
    /\ PanOutgoing = {}
    /\ \A s \in Tracked : Direct(s)

\* C12: a setAudioMode with the mode that is already current is never
\* skipped: it disconnects every tracked source and the panner, and
\* reconnects every tracked source, so that afterwards every tracked source
\* is wired by the current mode, also when disconnectStereoPanner had
\* removed the panner's outgoing edges or a tracked source had been
\* disconnected outside the engine.
FullCycle ==
    LET k == Len(connectedSources) IN
    /\ Len(steps) = 2 * k + 4
    /\ \A i \in 1..k : steps[1 + i].at = "disconnect"
    /\ steps[k + 2].at = "disconnectPanner"
    /\ \A e \in steps[k + 2].edges : e[1] \notin Tracked \cup {PanNode}
    /\ steps[k + 3].at = "record"
    /\ \A i \in 1..k : steps[k + 3 + i].at = "reconnect"
    /\ steps[2 * k + 4].at = "return"

C12_SelfTransitionRefreshes ==
    (lastOp.op = "setAudioMode" /\ lastOp.mode = lastOp.from) =>
        /\ FullCycle
        /\ currentAudioMode = lastOp.mode
        /\ \A s \in Tracked : WiredByMode(s)

C12_Witness ==
    /\ lastOp.op = "setAudioMode"
    /\ lastOp.from = "stereopanner"
    /\ lastOp.mode = "stereopanner"
    /\ Cardinality(Tracked) >= 2
    /\ <<PanNode, Destination>> \notin steps[1].edges
    /\ \E s \in Tracked : <<s, PanNode>> \notin steps[1].edges
    /\ \A s \in Tracked : ToPan(s) /\ PanOut

\* C13 as stated: a failure during connectAudioSource (of the source's
\* connect(), of the creation of the panner or of the context) is thrown to
\* the caller, and the same failure during setAudioMode is not.
C13_Original ==
    /\ (lastOp.op = "connectAudioSource" /\ lastOp.fault # "none") =>
          lastOp.threw
    /\ (lastOp.op = "setAudioMode" /\ lastOp.fault # "none") =>
          ~lastOp.threw

\* C13, amended: connectAudioSource throws exactly when a platform call
\* fails during it (connect(), createStereoPanner() or `new
\* AudioContext()'); setAudioMode does not throw when a source's connect()
\* or createStereoPanner() fails during the reconnect loop, the sources
\* that did not fail being wired by the new mode; setAudioMode does throw
\* when the context cannot be created, the mode being recorded all the
\* same.
C13_SingleThrowsBatchRecovers ==
    /\ lastOp.op = "connectAudioSource" =>
          (lastOp.threw <=> lastOp.fault # "none")
    /\ (lastOp.op = "setAudioMode" /\ lastOp.fault \in {"connect", "panner"}) =>
          /\ ~lastOp.threw
          /\ lastOp.failed # {}
          /\ \A s \in Tracked \ lastOp.failed : WiredByMode(s)
    /\ (lastOp.op = "setAudioMode" /\ lastOp.fault = "context") =>
          /\ lastOp.threw
          /\ currentAudioMode = lastOp.mode
          /\ ~audioContext

C13_Witness ==
    /\ lastOp.op = "connectAudioSource"
    /\ lastOp.fault = "panner"
    /\ lastOp.threw
    /\ currentAudioMode = "stereopanner"
    /\ Tracked # {}
    /\ ~stereoPannerNode

\* C14: the middleware never throws, whatever happens in setAudioMode,
\* and passes every action to next(); a SET_SOUND_OPTION action whose
\* setAudioMode threw is forwarded like any other.
SetModeThrew == steps # <<>> /\ steps[Len(steps)].at = "throw"

C14_MiddlewareAlwaysForwards ==
    lastOp.op = "middleware" =>
        /\ ~lastOp.threw
        /\ lastOp.forwarded
        /\ (lastOp.fault = "context") => SetModeThrew

C14_Witness ==
    /\ lastOp.op = "middleware"
    /\ lastOp.action = "SET_SOUND_OPTION"
    /\ lastOp.mode = "stereopanner"
    /\ lastOp.fault = "context"
    /\ SetModeThrew
    /\ ~lastOp.threw
    /\ lastOp.forwarded

\* C15: a getAudioContext whose `new AudioContext()' fails throws and
\* leaves the whole state as it was, without a context; a getAudioContext
\* whose creation succeeds, also after failed attempts, does not throw and
\* stores the one context, which then stays.
C15_Failure ==
    (lastOp'.op = "getAudioContext" /\ lastOp'.fault = "context") =>
        /\ lastOp'.threw
        /\ State' = State
        /\ ~audioContext' /\ contextsCreated' = 0

C15_Success ==
    (lastOp'.op = "getAudioContext" /\ lastOp'.fault = "none") =>
        /\ ~lastOp'.threw
        /\ audioContext' /\ contextsCreated' = 1
        /\ audioContext => State' = State

C15_FailedCreationLeavesNoContext ==
    [][C15_Failure /\ C15_Success]_vars

C15_Witness ==
    /\ lastOp.op = "getAudioContext"
    /\ lastOp.fault = "context"
    /\ lastOp.threw
    /\ ~audioContext
    /\ contextsCreated = 0

\* C16: at most one AudioContext and at most one StereoPannerNode are ever
\* constructed, the module holds exactly the constructed one, and once it
\* holds one it keeps it.
C16_AtMostOne ==
    /\ contextsCreated = (IF audioContext THEN 1 ELSE 0)
    /\ pannersCreated = (IF stereoPannerNode THEN 1 ELSE 0)
    /\ stereoPannerNode => audioContext

C16_Kept ==
    /\ audioContext => audioContext' /\ contextsCreated' = contextsCreated
    /\ stereoPannerNode =>
          stereoPannerNode' /\ pannersCreated' = pannersCreated

C16_Singletons == []C16_AtMostOne /\ [][C16_Kept]_vars

C16_Witness ==
    /\ lastOp.op = "getStereoPannerNode"
    /\ ~lastOp.threw
    /\ currentAudioMode = "stereopanner"
    /\ Cardinality(Tracked) >= 2
    /\ \A s \in Tracked : ToPan(s)
    /\ contextsCreated = 1
    /\ pannersCreated = 1

\* C17: disconnectStereoPanner removes the edges that leave the panner and
\* nothing else: the node, its pan value and scheduled changes, the mode,
\* connectedSources and the edges into the panner stay, and it does not
\* throw; without a panner it changes nothing and creates none; a source
\* connected afterwards in stereopanner mode connects the same panner to
\* the destination again.
C17_Frame ==
    lastOp'.op = "disconnectStereoPanner" =>
        /\ ~lastOp'.threw
        /\ edges' = {e \in edges : e[1] # PanNode}
        /\ State' = [State EXCEPT !.edges = edges']
        /\ ~stereoPannerNode => State' = State

C17_Reconnectable ==
    (/\ lastOp.op = "disconnectStereoPanner"
     /\ stereoPannerNode
     /\ currentAudioMode = "stereopanner"
     /\ lastOp'.op = "connectAudioSource") =>
        /\ PanOut'
        /\ pannersCreated' = pannersCreated

C17_DisconnectPannerOnlyOutgoing == [][C17_Frame /\ C17_Reconnectable]_vars

C17_Witness ==
    /\ lastOp.op = "disconnectStereoPanner"
    /\ stereoPannerNode
    /\ currentAudioMode = "stereopanner"
    /\ Cardinality(Tracked) >= 2
    /\ \A s \in Tracked : ToPan(s)
    /\ PanOutgoing = {}
    /\ pan = 7

\* C18: getCurrentPanValue changes nothing, in particular it creates
\* neither the context nor the panner; it returns 0 while there is no
\* panner and the value of the pan parameter otherwise, which right after
\* an immediate setPanValue(v) is max(-1, min(1, v)).
C18_Frame ==
    lastOp'.op = "getCurrentPanValue" =>
        /\ State' = State
        /\ lastOp'.value = (IF stereoPannerNode THEN pan ELSE 0)

C18_AfterWrite ==
    (/\ lastOp.op = "setPanValue"
     /\ lastOp.when = Undefined
     /\ lastOp'.op = "getCurrentPanValue") =>
        lastOp'.value = ExpectedPan(lastOp.value)

C18_GetPanIsPureRead == [][C18_Frame /\ C18_AfterWrite]_vars

C18_Witness ==
    /\ lastOp.op = "getCurrentPanValue"
    /\ lastOp.value = 0
    /\ ~stereoPannerNode
    /\ ~audioContext

\* C19: a cleanup callback of a test helper, whenever it runs, also after
\* disconnectStereoPanner or a mode change has taken the panner's outgoing
\* edges away, raises no error and removes only the edges that leave
\* the helper's own oscillator and gain node: the mode, connectedSources,
\* the edges of the tracked sources, the panner's outgoing edges, the pan
\* value and its scheduled changes stay as they were.
HelperNodes == Range(OscillatorNames) \cup Range(GainNames)

C19_CleanupFrame ==
    lastOp'.op = "cleanup" =>
        /\ ~lastOp'.threw
        /\ currentAudioMode' = currentAudioMode
        /\ connectedSources' = connectedSources
        /\ pan' = pan /\ panEvents' = panEvents
        /\ stereoPannerNode' = stereoPannerNode
        /\ {e \in edges' : e[1] \notin HelperNodes}
               = {e \in edges : e[1] \notin HelperNodes}
        /\ edges' \subseteq edges

C19_CleanupIsBenign == [][C19_CleanupFrame]_vars

C19_Witness ==
    /\ lastOp.op = "cleanup"
    /\ currentAudioMode = "stereopanner"
    /\ Cardinality(Tracked) >= 2
    /\ \A s \in Tracked : ToPan(s)
    /\ PanOutgoing = {}
    /\ pan = 7
    /\ testsStarted = 1 /\ timers = {}

\* C20 as stated: the test helpers and their cleanup callbacks change the
\* edges of the panner (into it, or from it to the destination) and the
\* pan parameter only through the engine's operations: a step of a helper
\* leaves the panner's edges, the pan value and its scheduled changes as
\* the engine calls made inside the helper (getAudioContext,
\* getStereoPannerNode, setPanValue, setAudioMode) leave them.
HelperOps == {"testStereoPanner", "testStereoPannerSweep", "cleanup"}

PanEdges(E) == {e \in E : PanNode \in {e[1], e[2]}}

\* the state the engine calls inside a helper produce
ViaEngine(op, panValue) ==
    IF op = "testStereoPanner"
    THEN IF currentAudioMode = "stereopanner"
         THEN setPanValue(State, panValue, Undefined, NoFaults).st
         ELSE getAudioContext(State, NoFaults).st
    ELSE IF op = "testStereoPannerSweep"
    THEN getStereoPannerNode(
             IF currentAudioMode # "stereopanner"
             THEN setAudioMode(State, "stereopanner", NoFaults).st
             ELSE State,
             0, NoFaults).st
    ELSE State

C20_HelperStep ==
    lastOp'.op \in HelperOps =>
        LET e == ViaEngine(lastOp'.op, lastOp'.value) IN
        /\ PanEdges(edges') = PanEdges(e.edges)
        /\ pan' = e.pan
        /\ panEvents' = e.panEvents

C20_Original == [][C20_HelperStep]_vars

\* C21: after every sequence of getAudioContext, getStereoPannerNode,
\* setPanValue, connectAudioThroughStereoPanner, disconnectStereoPanner
\* and getCurrentPanValue calls made on both copies of the module, the two
\* copies have returned the same, thrown the same, and hold the same
\* context and panner existence, pan value, scheduled pan changes and
\* graph edges.
C21_VariantsAgree ==
    /\ lastOp.returned = lastOp.supersededReturned
    /\ superseded.audioContext = audioContext
    /\ superseded.stereoPannerNode = stereoPannerNode
    /\ getCurrentPanValueSuperseded(superseded) = getCurrentPanValue(State)
    /\ superseded.panEvents = panEvents
    /\ superseded.edges = edges

C21_Witness ==
    /\ lastOp.op = "getCurrentPanValue"
    /\ lastOp.returned.value = 7
    /\ lastOp.supersededReturned.value = 7
    /\ Cardinality(Tracked) >= 2
    /\ \A s \in Tracked : <<s, PanNode>> \in superseded.edges
    /\ <<PanNode, Destination>> \notin superseded.edges

\* C22 as stated: testStereoPannerSequence makes stereopanner the current
\* mode and schedules the steps left, centre, right; each step, whatever
\* mode changes ran in between, sets the pan to its value and routes its
\* tone through the panner.
SequenceOrder == <<-PanOne, 0, PanOne>>

C22_Scheduled ==
    (lastOp'.op = "testStereoPannerSequence" /\ ~lastOp'.threw) =>
        /\ currentAudioMode' = "stereopanner"
        /\ sequence' = SequenceOrder

C22_InOrder ==
    lastOp'.op = "sequenceStep" =>
        /\ sequence # <<>>
        /\ lastOp'.value = Head(sequence)
        /\ sequence' = Tail(sequence)
        /\ \E k \in 1..3 : sequence = SubSeq(SequenceOrder, k, 3)

C22_StepThroughPanner ==
    lastOp'.op = "sequenceStep" =>
        /\ pan' = lastOp'.value
        /\ <<lastOp'.src, PanNode>> \in edges'
        /\ PanOut'

C22_Original ==
    [][C22_Scheduled /\ C22_InOrder /\ C22_StepThroughPanner]_vars

\* C22, amended: testStereoPannerSequence makes stereopanner the current
\* mode and schedules the steps left, centre, right, which run in that
\* order; a step that finds stereopanner the current mode sets the pan to
\* its value (-1, 0, +1) and routes its tone through the panner; a step
\* that runs after a mode change to another mode routes its tone directly
\* to the destination and leaves the pan value as it was.
C22_StepByMode ==
    lastOp'.op = "sequenceStep" =>
        IF currentAudioMode = "stereopanner"
        THEN /\ pan' = lastOp'.value
             /\ <<lastOp'.src, PanNode>> \in edges'
             /\ PanOut'
        ELSE /\ pan' = pan /\ panEvents' = panEvents
             /\ <<lastOp'.src, Destination>> \in edges'
             /\ <<lastOp'.src, PanNode>> \notin edges'
             /\ stereoPannerNode' = stereoPannerNode

C22_SequenceInOrderByMode ==
    [][C22_Scheduled /\ C22_InOrder /\ C22_StepByMode]_vars

C22_Witness ==
    /\ lastOp.op = "sequenceStep"
    /\ lastOp.value = PanOne
    /\ lastOp.from = "stereopanner"
    /\ sequence = <<>>
    /\ testsStarted = 3
    /\ pan = PanOne
    /\ <<GainNames[3], PanNode>> \in edges
    /\ PanOut

\* C23: every call setAudioMode(m) ends with getCurrentAudioMode() = m,
\* whatever string m is and whether the call returns or throws: a
\* disconnect() of a tracked source that throws in the first phase does not
\* make the call throw, the mode is recorded after the disconnects and
\* before the reconnection phase, and no later step of the call, the throw
\* included, shows another mode.
C23_RecordedAt(t) == CHOOSE i \in 1..Len(t) : t[i].at = "record"

C23_SetModeStep ==
    lastOp'.op = "setAudioMode" =>
        /\ getCurrentAudioMode(State)' = lastOp'.mode
        /\ lastOp'.threw <=> lastOp'.fault = "context"
        /\ \E i \in 1..Len(steps') : steps'[i].at = "record"
        /\ \A i \in 1..Len(steps') :
              /\ steps'[i].at \in {"reconnect", "throw", "return"}
                     => i > C23_RecordedAt(steps')
              /\ steps'[i].at \in {"disconnect", "disconnectPanner"}
                     => i < C23_RecordedAt(steps')
              /\ i >= C23_RecordedAt(steps')
                     => steps'[i].mode = lastOp'.mode
        /\ steps'[Len(steps')].at = IF lastOp'.threw THEN "throw" ELSE "return"

C23_ModeAlwaysRecorded == [][C23_SetModeStep]_vars

C23_Witness ==
    /\ lastOp.op = "setAudioMode"
    /\ lastOp.from = "default"
    /\ lastOp.mode = "stereopanner"
    /\ currentAudioMode = "stereopanner"
    /\ ~lastOp.threw
    /\ lastOp.stuck # {}
    /\ \A s \in lastOp.stuck :
          <<s, Destination>> \in edges /\ <<s, PanNode>> \in edges

\* C24: no operation of the engine (setAudioMode, connectAudioSource,
\* connectAudioThroughStereoPanner, disconnectStereoPanner, setPanValue)
\* removes a source from connectedSources or changes the order of the
\* sources already in it, whether the operation succeeds or throws; every
\* source that was tracked before a setAudioMode is tracked after it and is
\* wired by the new mode's rule.
C24_Step ==
    /\ Len(connectedSources') >= Len(connectedSources)
    /\ SubSeq(connectedSources', 1, Len(connectedSources)) = connectedSources
    /\ lastOp'.op \in {"disconnectStereoPanner", "setPanValue", "setAudioMode"}
           => connectedSources' = connectedSources
    /\ lastOp'.op = "setAudioMode" =>
           \A s \in Range(connectedSources) :
               s \in Range(connectedSources') /\ WiredByMode(s)'

C24_SourcesOnlyGrow == [][C24_Step]_vars

C24_Witness ==
    /\ lastOp.op = "setAudioMode"
    /\ lastOp.from = "stereopanner"
    /\ lastOp.mode = "default"
    /\ Cardinality(Tracked) >= 2
    /\ \A s \in Tracked : Direct(s) /\ ~ToPan(s)
    /\ stereoPannerNode
    /\ pan = 7

\* C25: a connectAudioSource(S) that throws because S's connect() or the
\* creation of the panner failed has S in connectedSources all the same
\* (S was added before the connection was attempted and is not taken out
\* on error), and the setAudioMode that follows wires S by the new mode's
\* rule.
ConnectionStepFailed(op) ==
    /\ op.op = "connectAudioSource"
    /\ op.threw
    /\ op.fault \in {"connect", "panner"}

C25_TrackedOnFailure ==
    ConnectionStepFailed(lastOp') =>
        /\ connectedSources' = SetAdd(connectedSources, lastOp'.src)
        /\ \A s \in Sources : <<s, Destination>> \in edges'
                                  <=> <<s, Destination>> \in edges
        /\ \A s \in Sources : <<s, PanNode>> \in edges'
                                  <=> <<s, PanNode>> \in edges

C25_WiredByNextModeChange ==
    (ConnectionStepFailed(lastOp) /\ lastOp'.op = "setAudioMode") =>
        \A s \in {lastOp.src} :
            /\ s \in Range(connectedSources')
            /\ WiredByMode(s)'

C25_FailedConnectStaysTracked ==
    [][C25_TrackedOnFailure /\ C25_WiredByNextModeChange]_vars

C25_Witness ==
    /\ ConnectionStepFailed(lastOp)
    /\ lastOp.fault = "connect"
    /\ ~lastOp.tracked
    /\ lastOp.src \in Tracked
    /\ ~Direct(lastOp.src)
    /\ ~ToPan(lastOp.src)
    /\ Cardinality(Tracked) >= 2

\* C26: a call connectAudioThroughStereoPanner(S) that returns has, in
\* every mode, added S to connectedSources and the edges S -> panner and
\* panner -> destination to the graph, has removed no edge and has left the
\* current mode as it was (so has a call that throws); the setAudioMode(m)
\* that follows wires S by m's rule alone.
C26_Routed ==
    (lastOp'.op = "connectAudioThroughStereoPanner" /\ ~lastOp'.threw) =>
        /\ connectedSources' = SetAdd(connectedSources, lastOp'.src)
        /\ edges' = edges \cup {<<lastOp'.src, PanNode>>,
                                <<PanNode, Destination>>}

C26_ModeKept ==
    lastOp'.op = "connectAudioThroughStereoPanner" =>
        /\ currentAudioMode' = currentAudioMode
        /\ lastOp'.from = currentAudioMode

C26_ThenRewired ==
    (/\ lastOp.op = "connectAudioThroughStereoPanner"
     /\ ~lastOp.threw
     /\ lastOp'.op = "setAudioMode") =>
        \A s \in {lastOp.src} :
            /\ s \in Range(connectedSources')
            /\ WiredByMode(s)'
            /\ ~OtherRuleEdge(s)'

C26_ExportedRoutingIgnoresMode ==
    [][C26_Routed /\ C26_ModeKept /\ C26_ThenRewired]_vars

C26_Witness ==
    /\ lastOp.op = "connectAudioThroughStereoPanner"
    /\ ~lastOp.threw
    /\ lastOp.tracked
    /\ currentAudioMode = "default"
    /\ Direct(lastOp.src)
    /\ ToPan(lastOp.src)
    /\ PanOut

====
